---- MODULE Spec2Model ----
(***************************************************************************)
(* A model of the resolution cache of the services package (cache.go):     *)
(* Cache.Resolve, Cache.Lookup, the shared Cache.lookup loop, the          *)
(* background cacheItem.lookup goroutine, the base registry they call, and *)
(* the error classifier (error.go) applied to the errors they return.      *)
(*                                                                         *)
(* Strings that the code compares or sorts (tags, joined tag keys) are     *)
(* tuples of byte values; names and addresses are TLA+ strings, of which   *)
(* the code only uses identity and length.  Durations and instants are     *)
(* counted in ticks of the clock `now`.                                    *)
(***************************************************************************)
EXTENDS Integers, Sequences, FiniteSets, TLC

\* ------------------------------------------------------------------ bounds

\* Number of goroutines calling into the cache concurrently.
NumCallers == 2

\* Calls the concurrent callers may start, all together.
MaxCalls == 2

\* Calls a caller that is alone may start, one after the other.
MaxSeqCalls == 3

\* Calls concurrent callers may start, all together, against a cache whose
\* budget holds no entry, where every call is a Resolve and the clock stands
\* still.
MaxBurstCalls == 3

\* Last instant of the clock, in the unit durations are counted in.
MaxTime == 2

\* Preferred tags a Prefer registry is given, at most.
MaxPreferred == 2

Callers == 1..NumCallers

\* --------------------------------------------------------- program constants

\* unsafe.Sizeof(*item) for cacheItem on a 64-bit build: index 8, key 32,
\* tags 24, addrs 24, bytes 8, ttl 24, err 16, ready 8.
SizeofCacheItem == 144

\* unsafe.Sizeof of a slice header and of a string header on a 64-bit build.
SizeofSlice == 24

SizeofStringHeader == 16

\* The default byte budget, 1024 * 1024.
DefaultMaxBytes == 1048576

\* time.Duration(math.MaxInt64), the default ceiling of the TTL; the largest
\* 32-bit integer stands for it, far above every duration of the model.
MaxDuration == 2147483647

\* time.Second, the validity the test registry reports, in ticks.
Second == 2

\* The byte ',' that strings.Join puts between tags.
Comma == 44

\* -------------------------------------------------------------- strings

\* Byte-wise s < t, the order sort.Strings uses.
RECURSIVE StrLess(_, _)
StrLess(s, t) ==
    IF Len(t) = 0 THEN FALSE
    ELSE IF Len(s) = 0 THEN TRUE
    ELSE IF Head(s) # Head(t) THEN Head(s) < Head(t)
    ELSE StrLess(Tail(s), Tail(t))

copyStrings(s) == IF Len(s) = 0 THEN <<>> ELSE [i \in 1..Len(s) |-> s[i]]

\* Inserts string x into the sorted list s, keeping it sorted.
RECURSIVE InsertSorted(_, _)
InsertSorted(x, s) ==
    IF Len(s) = 0 THEN <<x>>
    ELSE IF StrLess(x, Head(s)) THEN <<x>> \o s
    ELSE <<Head(s)>> \o InsertSorted(x, Tail(s))

\* sort.Strings: the list in ascending byte order.
RECURSIVE SortStrings(_)
SortStrings(s) ==
    IF Len(s) = 0 THEN <<>> ELSE InsertSorted(Head(s), SortStrings(Tail(s)))

\* A sortedStrings that returns its copy without sorting it.
sortedStringsUnsorted(s) == copyStrings(s)

sortedStrings(s) == IF Len(s) > 1 THEN SortStrings(copyStrings(s)) ELSE copyStrings(s)

\* strings.Join(tags, ",")
RECURSIVE StringsJoin(_)
StringsJoin(tags) ==
    IF Len(tags) = 0 THEN <<>>
    ELSE IF Len(tags) = 1 THEN tags[1]
    ELSE tags[1] \o <<Comma>> \o StringsJoin(Tail(tags))

makeCacheKey(n, tags) == [name |-> n, tags |-> StringsJoin(tags)]

sizeofString(s) == SizeofStringHeader + Len(s)

RECURSIVE SumSizes(_)
SumSizes(s) == IF Len(s) = 0 THEN 0 ELSE sizeofString(Head(s)) + SumSizes(Tail(s))

sizeofStrings(s) == SizeofSlice + SumSizes(s)

\* The permutations of 1..n, the values rand.Perm(n) can return.
Perms(n) == {f \in [1..n -> 1..n] : \A i, j \in 1..n : f[i] = f[j] => i = j}

\* A shuffle that forgets to fill its result: every slot stays "".
shuffledStringsUnfilled(s, perm) == [i \in 1..Len(s) |-> ""]

\* shuffledStrings, for the permutation rand.Perm returned.
shuffledStrings(s, perm) == [i \in 1..Len(s) |-> s[perm[i]]]

Range(s) == {s[i] : i \in 1..Len(s)}

\* ---------------------------------------------------------- base registry

TagX == <<120>>

TagY == <<121>>

\* The services the base registry knows: per name, its addresses and the tags
\* each address carries.  One name is known with no address at all.
Services ==
    [svc |-> << [addr |-> "h1:80", tags |-> {TagX}],
                [addr |-> "h2:80", tags |-> {TagX, TagY}] >>,
     none |-> << >>]

\* The addresses of list l that carry every tag of tags ("no tags means to do
\* no filtering").
RECURSIVE FilterTags(_, _)
FilterTags(l, tags) ==
    IF Len(l) = 0 THEN <<>>
    ELSE (IF Range(tags) \subseteq Head(l).tags THEN <<Head(l).addr>> ELSE <<>>)
         \o FilterTags(Tail(l), tags)

\* Registry.Lookup of the base registry: (addrs, ttl, err).
BaseLookup(ctxErr, n, tags) ==
    IF ctxErr # "nil" THEN [addrs |-> <<>>, ttl |-> 0, err |-> ctxErr]
    ELSE IF n \notin DOMAIN Services
         THEN [addrs |-> <<>>, ttl |-> Second, err |-> "unreachable"]
         ELSE [addrs |-> copyStrings(FilterTags(Services[n], tags)),
               ttl |-> Second, err |-> "nil"]

\* ------------------------------------------------------- error classifier

\* An error value is the chain of its wrappers, outermost first, ending in
\* the error at the bottom; nil is the empty chain.  The wrappers are
\* *wrappedError (an errorCause) and *net.OpError; the errors at the bottom
\* are the context errors, the cache's *cacheError, the unreachable{} of the
\* base registry, and *net.DNSError with one of two messages.
Wrappers == {"wrappedError", "net.OpError"}

DNSCanceled == "lookup: operation was canceled"

DNSNoSuchHost == "no such host"

\* The error value a call's err string stands for.
Err(e) == IF e = "nil" THEN << >> ELSE <<e>>

\* isCanceledDNSError: the message ends in ": operation was canceled".
isCanceledDNSError(e) == e = DNSCanceled

\* isCanceled (error.go): walks the wrappers; at the bottom only
\* context.Canceled itself, or a canceled DNS error, is a cancellation.
RECURSIVE isCanceled(_)
isCanceled(err) ==
    IF Len(err) = 0 THEN FALSE
    ELSE IF Head(err) \in {DNSCanceled, DNSNoSuchHost} THEN isCanceledDNSError(Head(err))
    ELSE IF Head(err) \in Wrappers THEN isCanceled(Tail(err))
    ELSE Head(err) = "context.Canceled"

\* A *cacheError whose Unreachable method answers false.
cacheErrorReachable == FALSE

\* (*cacheError).Unreachable
cacheErrorUnreachable == TRUE

\* isUnreachable (error.go): walks the wrappers; at the bottom a DNS error
\* saying "no such host", or an error with an Unreachable method that
\* answers true.
RECURSIVE isUnreachable(_)
isUnreachable(err) ==
    IF Len(err) = 0 THEN FALSE
    ELSE IF Head(err) \in {DNSCanceled, DNSNoSuchHost} THEN Head(err) = DNSNoSuchHost
    ELSE IF Head(err) \in Wrappers THEN isUnreachable(Tail(err))
    ELSE IF Head(err) = "cacheError" THEN cacheErrorUnreachable
    ELSE Head(err) = "unreachable"

\* ------------------------------------------------------------------- state

VARIABLES
    MinTTL, MaxTTL, MaxBytes,   \* Cache configuration fields
    workload,                   \* the callers, the calls they make and how long the clock runs
    items,                      \* cache.items: cacheKey -> element
    queue,                      \* cache.queue: elements, front first
    bytes, size, hits, misses, evictions,   \* the statistics counters
    item,                       \* the cacheItem each element holds, by element
    now,                        \* the clock time.Now() reads
    pc,                         \* where each caller stands in its call
    op, name, tags, ctx,        \* the call's arguments
    elem, hit,                  \* locals of Cache.lookup
    lbytes, oldest,             \* locals `bytes` and `oldestItem` of Cache.lookup
    res,                        \* what the caller's last call returned
    ncalls,                     \* calls started so far
    prefer,                     \* a Lookup of a Prefer registry, beside the cache
    dial,                       \* a DialContext of a Dialer, beside the cache
    retry                       \* the lookup loop under callers that never stop

config == <<MinTTL, MaxTTL, MaxBytes, workload>>

stats == <<bytes, size, hits, misses, evictions>>

args == <<op, name, tags, ctx>>

locals == <<elem, hit, lbytes, oldest>>

\* The components modelled beside the cache, each under a specification of
\* its own; the cache's actions leave them alone.
aside == <<prefer, dial, retry>>

\* The cache's own variables.
cache == <<config, items, queue, stats, item, now, pc, args, locals, res, ncalls>>

vars == <<config, aside, items, queue, stats, item, now, pc, args, locals, res, ncalls>>

Names == {"svc", "nosvc", "none"}

TagLists == {<<TagX, TagY>>, <<TagY, TagX>>}

\* The calls a caller can make: Resolve(name) and Lookup(name, tags...).
Requests ==
    {[op |-> "Resolve", name |-> n, tags |-> <<>>] : n \in Names}
    \cup {[op |-> "Lookup", name |-> "svc", tags |-> t] : t \in TagLists}

\* What ctx.Err() returns once a context is done: it was canceled, or its
\* deadline passed.
CtxErrs == {"context.Canceled", "context.DeadlineExceeded"}

\* The calls on the names the base registry has addresses for or does not
\* know.
CoreRequests == {r \in Requests : r.name # "none"}

\* The Resolve calls among them.
BurstRequests == {r \in CoreRequests : r.op = "Resolve"}

\* The caches and workloads explored: the three caches of TestCache (large
\* cache, small cache, short TTL) under concurrent callers, a cache with a
\* short TTL and a budget that holds one entry but not two under a caller
\* that makes its calls one after the other, and the small cache under a
\* longer burst of concurrent Resolve calls while the clock stands still.
Scenarios ==
    {[MinTTL |-> 0, MaxTTL |-> 0, MaxBytes |-> DefaultMaxBytes,
      callers |-> NumCallers, calls |-> MaxCalls, requests |-> Requests,
      horizon |-> MaxTime],
     [MinTTL |-> 0, MaxTTL |-> 0, MaxBytes |-> 64,
      callers |-> NumCallers, calls |-> MaxCalls, requests |-> CoreRequests,
      horizon |-> MaxTime],
     [MinTTL |-> 0, MaxTTL |-> 1, MaxBytes |-> 0,
      callers |-> NumCallers, calls |-> MaxCalls, requests |-> CoreRequests,
      horizon |-> MaxTime],
     [MinTTL |-> 0, MaxTTL |-> 1, MaxBytes |-> 300,
      callers |-> 1, calls |-> MaxSeqCalls, requests |-> Requests,
      horizon |-> MaxTime],
     [MinTTL |-> 0, MaxTTL |-> 0, MaxBytes |-> 64,
      callers |-> NumCallers, calls |-> MaxBurstCalls, requests |-> BurstRequests,
      horizon |-> 0]}

\* A call's result: what it returned (kind, err, addr or addrs and ttl), the
\* element it was served from and, for a canceled call, whether that element
\* was still pending when the call returned.  For the list a Lookup returned:
\* the array it lives in (0 for an array of its own, e for the array of item
\* e's addresses), what that array holds now, and whether some caller had
\* written to a list returned for the same item before this call returned.
\* The record also remembers whether the call has removed an entry, and how
\* many calls of the caller have returned without being canceled.
NoRes ==
    [kind |-> "none", err |-> "nil", addr |-> "", addrs |-> <<>>, ttl |-> 0,
     elem |-> 0, pending |-> FALSE, ref |-> 0, own |-> <<>>, after |-> FALSE,
     evicted |-> FALSE, returned |-> 0]

\* What a caller writes over an address of a list it was returned.
Scribble == "overwritten"

\* No Lookup of a Prefer registry has been made.
PreferIdle ==
    [pc |-> "idle", name |-> "", tags |-> <<>>, pref |-> <<>>, ctx |-> "nil",
     i |-> 1, calls |-> <<>>, via |-> "",
     res |-> [addrs |-> <<>>, ttl |-> 0, err |-> "nil"]]

\* No DialContext has been made.
DialIdle ==
    [pc |-> "idle", address |-> "", asked |-> "", rerr |-> << >>, rtarget |-> "",
     target |-> "", dialed |-> FALSE, conn |-> FALSE, err |-> << >>]

\* The elements the lookup loop of one key can hold at a time: one per caller
\* and the one the map holds.
Slots == 1..(NumCallers + 1)

\* The lookup loop of one key with no call in it: the key is unmapped and no
\* element is allocated.
RetryIdle ==
    [pc |-> [c \in Callers |-> "idle"], elem |-> [c \in Callers |-> 0],
     hit |-> [c \in Callers |-> FALSE],
     map |-> 0, ent |-> [e \in Slots |-> "free"]]

\* The state after construction of a cache and workload of S.
InitOf(S) ==
    /\ prefer = PreferIdle /\ dial = DialIdle /\ retry = RetryIdle
    /\ \E s \in S :
          /\ MinTTL = s.MinTTL /\ MaxTTL = s.MaxTTL /\ MaxBytes = s.MaxBytes
          /\ workload = [callers |-> s.callers, calls |-> s.calls,
                         requests |-> s.requests, horizon |-> s.horizon]
    /\ items = [k \in {} |-> 0]
    /\ queue = <<>>
    /\ bytes = 0 /\ size = 0 /\ hits = 0 /\ misses = 0 /\ evictions = 0
    /\ item = <<>>
    /\ now = 0
    /\ pc = [p \in Callers |-> "idle"]
    /\ op = [p \in Callers |-> "Resolve"]
    /\ name = [p \in Callers |-> "svc"]
    /\ tags = [p \in Callers |-> <<>>]
    /\ ctx = [p \in Callers |-> FALSE]
    /\ elem = [p \in Callers |-> 0]
    /\ hit = [p \in Callers |-> FALSE]
    /\ lbytes = [p \in Callers |-> 0]
    /\ oldest = [p \in Callers |-> 0]
    /\ res = [p \in Callers |-> NoRes]
    /\ ncalls = 0

Init == InitOf(Scenarios)

\* --------------------------------------------------------- configuration

maxBytes == IF MaxBytes > 0 THEN MaxBytes ELSE DefaultMaxBytes

minTTL == IF MinTTL > 0 THEN MinTTL ELSE 0

maxTTL == IF MaxTTL > 0 THEN MaxTTL ELSE MaxDuration

\* ------------------------------------------------------- the recency queue

PushFront(q, e) == <<e>> \o q

Remove(q, e) == SelectSeq(q, LAMBDA x : x # e)

MoveToFront(q, e) == <<e>> \o Remove(q, e)

\* A queue whose back is taken to be its front.
BackIsFront(q) == q[1]

Back(q) == q[Len(q)]

\* A delete that leaves the key in the map.
MapDeleteNone(m, k) == m

MapDelete(m, k) == [x \in DOMAIN m \ {k} |-> m[x]]

MapPut(m, k, v) == [x \in DOMAIN m \cup {k} |-> IF x = k THEN v ELSE m[x]]

\* ------------------------------------------------------------ cache items

\* newCacheItem(key, tags): the tags argument is not stored, so the item's
\* tags field keeps its zero value.
newCacheItem(key, t) ==
    [index |-> 0, key |-> key, tags |-> <<>>, addrs |-> <<>>, bytes |-> 0,
     ttl |-> 0, err |-> "nil", ready |-> FALSE,
     call |-> [name |-> "", tags |-> <<>>],
     got |-> [addrs |-> <<>>, ttl |-> 0, err |-> "nil"],
     served |-> <<>>, touch |-> 0, at |-> 0]

\* The rank of the next touch of an item under the mutex: touches are
\* numbered in the order the mutex serialises them.
Stamp ==
    LET used == {item[e].touch : e \in DOMAIN item}
    IN  IF used = {} THEN 1 ELSE 1 + (CHOOSE m \in used : \A n \in used : n <= m)

\* The key of the call caller p is making (lines 109-110).
Key(p) == makeCacheKey(name[p], sortedStrings(tags[p]))

\* ------------------------------------------------- the background fetch

\* The context a fetch runs under, were it the context of the call that
\* created the item: that call is still in progress, or it has returned
\* because its context was done.
FetchCtxOfCaller(e) ==
    IF \E p \in Callers : elem[p] = e /\ ~hit[p]
    THEN (IF ctx[CHOOSE p \in Callers : elem[p] = e /\ ~hit[p]]
          THEN "context.Canceled" ELSE "nil")
    ELSE "context.Canceled"

\* ctx.Err() of the context the fetch passes to the base registry:
\* context.Background(), which is never done (line 248).
FetchCtx(e) == "nil"

\* A clamp that applies the floor last.
ClampTTLFloorLast(ttl, lo, hi) ==
    LET a == IF ttl > hi THEN hi ELSE ttl
    IN  IF a < lo THEN lo ELSE a

\* Lines 250-256.
ClampTTL(ttl, lo, hi) ==
    LET a == IF ttl < lo THEN lo ELSE ttl
    IN  IF a > hi THEN hi ELSE a

\* Lines 258-262: the byte footprint of item it holding addrs.
Footprint(it, addrs) ==
    SizeofCacheItem + sizeofStrings(addrs) + sizeofString(it.key.name)
        + sizeofString(it.key.tags) + sizeofStrings(it.tags)

\* What the base registry returns to the fetch of item e (line 248).
FetchResult(e) == BaseLookup(FetchCtx(e), item[e].key.name, item[e].tags)

\* A goroutine that may run again for an item it has completed.
FetchAlways(e) == TRUE

\* Lines 128-130 start one goroutine for each new item, and the goroutine
\* runs through cacheItem.lookup once: it can act while the item's ready
\* channel is open.
FetchPending(e) == ~item[e].ready

\* cacheItem.lookup, lines 247-268, the goroutine started for a new item: it
\* calls the base registry with the item's name and tags, clamps the TTL,
\* fills the item and closes its ready channel.  Nothing reads the item's
\* fields before the channel is closed, except the read ReadBytes models.
Fetch(e) ==
    /\ FetchPending(e)
    /\ LET got == FetchResult(e)
       IN  \E perm \in Perms(Len(got.addrs)) :
              item' = [item EXCEPT
                         ![e].call = [name |-> item[e].key.name, tags |-> item[e].tags],
                         ![e].got = got,
                         ![e].bytes = Footprint(item[e], got.addrs),
                         ![e].addrs = shuffledStrings(got.addrs, perm),
                         ![e].ttl = now + ClampTTL(got.ttl, minTTL, maxTTL),
                         ![e].at = now,
                         ![e].err = got.err,
                         ![e].ready = TRUE]
    /\ UNCHANGED <<config, aside, items, queue, stats, now, pc, args, locals, res, ncalls>>

\* The values a read of item e's bytes field can yield: the stored value once
\* the ready channel is closed; before that the read races with the write of
\* line 258 and sees the zero value or the footprint.
ReadBytes(e) ==
    IF item[e].ready THEN {item[e].bytes}
    ELSE {0, Footprint(item[e], FetchResult(e).addrs)}

\* ------------------------------------------------------------- the clock

\* The clock is read at a granularity of one second, longer than the short
\* TTL ceiling a cache can be given and as long as the TTL the base registry
\* reports.
Tick ==
    /\ now + Second <= workload.horizon
    /\ now' = now + Second
    /\ UNCHANGED <<config, aside, items, queue, stats, item, pc, args, locals, res, ncalls>>

\* A clock that is past every instant.
AfterAlways(t) == TRUE

\* time.Now().After(t)
After(t) == now > t

\* --------------------------------------------------------------- callers

\* A caller starts Resolve(ctx, name) or Lookup(ctx, name, tags...).  ctx[p]
\* says whether the context is done by the time the call reaches its select,
\* the only place that looks at it: FALSE for a context that stays live, TRUE
\* for one that is done before the call or while it waits.  Callers are
\* interchangeable, so the first call is caller 1's.
Begin(p) ==
    /\ pc[p] = "idle"
    /\ p <= workload.callers
    /\ ncalls < workload.calls
    /\ p = 1 \/ ncalls > 0
    /\ \E r \in workload.requests, c \in BOOLEAN :
          /\ op' = [op EXCEPT ![p] = r.op]
          /\ name' = [name EXCEPT ![p] = r.name]
          /\ tags' = [tags EXCEPT ![p] = r.tags]
          /\ ctx' = [ctx EXCEPT ![p] = c]
    /\ pc' = [pc EXCEPT ![p] = "lookup"]
    /\ res' = [res EXCEPT ![p] = [NoRes EXCEPT !.returned = res[p].returned]]
    /\ ncalls' = ncalls + 1
    /\ UNCHANGED <<config, aside, items, queue, stats, item, now, locals>>

\* A map lookup that never finds the key.
MapHasNever(m, k) == FALSE

\* elem, hit := cache.items[key]
MapHas(m, k) == k \in DOMAIN m

\* Lines 113-130: under the mutex, find the key's element and move it to the
\* front, or insert a new pending item at the front; a new item's fetch
\* goroutine is started.  The item touched records the rank of the touch.
LockedLookup(p) ==
    /\ pc[p] = "lookup"
    /\ IF MapHas(items, Key(p))
       THEN /\ elem' = [elem EXCEPT ![p] = items[Key(p)]]
            /\ hit' = [hit EXCEPT ![p] = TRUE]
            /\ queue' = MoveToFront(queue, items[Key(p)])
            /\ item' = [item EXCEPT ![items[Key(p)]].touch = Stamp]
            /\ UNCHANGED items
       ELSE /\ item' = Append(item, [newCacheItem(Key(p), sortedStrings(tags[p]))
                                       EXCEPT !.touch = Stamp])
            /\ elem' = [elem EXCEPT ![p] = Len(item) + 1]
            /\ hit' = [hit EXCEPT ![p] = FALSE]
            /\ queue' = PushFront(queue, Len(item) + 1)
            /\ items' = MapPut(items, Key(p), Len(item) + 1)
    /\ pc' = [pc EXCEPT ![p] = "wait"]
    /\ UNCHANGED <<config, aside, stats, now, args, lbytes, oldest, res, ncalls>>

\* The result record of the call caller p is making, before the call fills
\* it: it remembers whether the call has removed an entry.
Returned(p) == [NoRes EXCEPT !.evicted = res[p].evicted, !.returned = res[p].returned]

\* The same for a call that returns an element's fields: one more call of
\* the caller has returned without being canceled.
Served(p) == [Returned(p) EXCEPT !.returned = @ + 1]

\* A canceled call that withdraws the key from the map.
CancelWithdraws(m, k) == MapDelete(m, k)

\* Line 135, `return nil, nil, time.Time{}, ctx.Err()`: the canceled call
\* returns without taking the mutex, so the map stays as it is.
CancelLeaves(m, k) == m

\* Lines 132-138, the select's first case: the item is ready; the caller
\* then compares the clock with the item's expiry.
WaitReady(p) ==
    /\ pc[p] = "wait"
    /\ item[elem[p]].ready
    /\ pc' = [pc EXCEPT ![p] = IF After(item[elem[p]].ttl) THEN "expire" ELSE "stats"]
    /\ UNCHANGED <<config, aside, items, queue, stats, item, now, args, locals, res, ncalls>>

\* Lines 134-135, the select's second case: the context is done and the call
\* returns ctx.Err(), whichever of the two errors that is.  When both cases
\* are ready the select takes either.
WaitCanceled(p) ==
    /\ pc[p] = "wait"
    /\ ctx[p]
    /\ \E err \in CtxErrs :
          res' = [res EXCEPT ![p] = [Returned(p) EXCEPT !.kind = "canceled", !.err = err,
                                                  !.elem = elem[p],
                                                  !.pending = ~item[elem[p]].ready]]
    /\ items' = CancelLeaves(items, Key(p))
    /\ pc' = [pc EXCEPT ![p] = "idle"]
    /\ elem' = [elem EXCEPT ![p] = 0]
    /\ hit' = [hit EXCEPT ![p] = FALSE]
    /\ UNCHANGED <<config, aside, queue, stats, item, now, args, lbytes, oldest, ncalls>>

\* A guard that asks only whether the key is mapped.
StillMappedAny(m, k, e) == MapHas(m, k)

\* Line 143, `cache.items[key] == elem`: the map still maps the key to this
\* very element.
StillMapped(m, k, e) == MapHas(m, k) /\ m[k] = e

\* Lines 139-147: the item is past its expiry; under the mutex the caller
\* removes it if the map still holds this very element, and otherwise leaves
\* the map and the queue alone.
ExpireLocked(p) ==
    /\ pc[p] = "expire"
    /\ IF StillMapped(items, Key(p), elem[p])
       THEN /\ queue' = Remove(queue, elem[p])
            /\ items' = MapDelete(items, Key(p))
            /\ res' = [res EXCEPT ![p].evicted = TRUE]
            /\ pc' = [pc EXCEPT ![p] = "evBytes"]
       ELSE /\ pc' = [pc EXCEPT ![p] = "kept"]
            /\ UNCHANGED <<items, queue, res>>
    /\ UNCHANGED <<config, aside, stats, item, now, args, locals, ncalls>>

\* Line 149, `if evict` with evict false: a call that removed nothing touches
\* no counter and goes on to its statistics.
ExpireSkip(p) ==
    /\ pc[p] = "kept"
    /\ pc' = [pc EXCEPT ![p] = "stats"]
    /\ UNCHANGED <<config, aside, items, queue, stats, item, now, args, locals, res, ncalls>>

\* Line 150.
ExpireBytes(p) ==
    /\ pc[p] = "evBytes"
    /\ bytes' = bytes - item[elem[p]].bytes
    /\ pc' = [pc EXCEPT ![p] = "evSize"]
    /\ UNCHANGED <<config, aside, items, queue, size, hits, misses, evictions, item, now,
                   args, locals, res, ncalls>>

\* Line 151.
ExpireSize(p) ==
    /\ pc[p] = "evSize"
    /\ size' = size - 1
    /\ pc' = [pc EXCEPT ![p] = "evCount"]
    /\ UNCHANGED <<config, aside, items, queue, bytes, hits, misses, evictions, item, now,
                   args, locals, res, ncalls>>

\* An eviction that is not counted.
EvictionsAddNone(n) == n

\* atomic.AddInt64(&cache.evictions, +1)
EvictionsAdd(n) == n + 1

\* A retry taken by the call that created the item as well.
RetryAlways(h) == TRUE

\* Lines 153-159: `if hit { continue }`, whether the call that evicted the
\* expired item starts over.
Retry(h) == h

\* Lines 152-159: the eviction is counted; a call that hit the expired item
\* starts over, the call that created it goes on with it.
ExpireCount(p) ==
    /\ pc[p] = "evCount"
    /\ evictions' = EvictionsAdd(evictions)
    /\ pc' = [pc EXCEPT ![p] = IF Retry(hit[p]) THEN "lookup" ELSE "stats"]
    /\ UNCHANGED <<config, aside, items, queue, bytes, size, hits, misses, item, now,
                   args, locals, res, ncalls>>

\* A hit that is counted twice.
HitsAddTwice(n) == n + 2

\* atomic.AddInt64(&cache.hits, +1)
HitsAdd(n) == n + 1

\* Lines 163-164.
HitCount(p) ==
    /\ pc[p] = "stats"
    /\ hit[p]
    /\ hits' = HitsAdd(hits)
    /\ pc' = [pc EXCEPT ![p] = "ret"]
    /\ UNCHANGED <<config, aside, items, queue, bytes, size, misses, evictions, item, now,
                   args, locals, res, ncalls>>

\* Line 166.
MissSize(p) ==
    /\ pc[p] = "stats"
    /\ ~hit[p]
    /\ size' = size + 1
    /\ pc' = [pc EXCEPT ![p] = "mMisses"]
    /\ UNCHANGED <<config, aside, items, queue, bytes, hits, misses, evictions, item, now,
                   args, locals, res, ncalls>>

\* A miss that is not counted.
MissesAddNone(n) == n

\* atomic.AddInt64(&cache.misses, +1)
MissesAdd(n) == n + 1

\* Line 167.
MissCount(p) ==
    /\ pc[p] = "mMisses"
    /\ misses' = MissesAdd(misses)
    /\ pc' = [pc EXCEPT ![p] = "mBytes"]
    /\ UNCHANGED <<config, aside, items, queue, bytes, size, hits, evictions, item, now,
                   args, locals, res, ncalls>>

\* Line 169.
MissBytes(p) ==
    /\ pc[p] = "mBytes"
    /\ bytes' = bytes + item[elem[p]].bytes
    /\ lbytes' = [lbytes EXCEPT ![p] = bytes + item[elem[p]].bytes]
    /\ pc' = [pc EXCEPT ![p] = "budget"]
    /\ UNCHANGED <<config, aside, items, queue, size, hits, misses, evictions, item, now,
                   args, elem, hit, oldest, res, ncalls>>

\* Lines 172-184: while the byte counter read last exceeds the budget, under
\* the mutex, remove the element at the back of the queue, unless the map is
\* empty.
BudgetEvict(p) ==
    /\ pc[p] = "budget"
    /\ IF lbytes[p] > maxBytes /\ DOMAIN items # {}
       THEN /\ oldest' = [oldest EXCEPT ![p] = Back(queue)]
            /\ queue' = Remove(queue, Back(queue))
            /\ items' = MapDelete(items, item[Back(queue)].key)
            /\ res' = [res EXCEPT ![p].evicted = TRUE]
            /\ pc' = [pc EXCEPT ![p] = "bBytes"]
            /\ UNCHANGED lbytes
       ELSE /\ pc' = [pc EXCEPT ![p] = "ret"]
            /\ lbytes' = [lbytes EXCEPT ![p] = 0]
            /\ UNCHANGED <<items, queue, oldest, res>>
    /\ UNCHANGED <<config, aside, stats, item, now, args, elem, hit, ncalls>>

\* Line 186.
BudgetBytes(p) ==
    /\ pc[p] = "bBytes"
    /\ \E b \in ReadBytes(oldest[p]) :
          /\ bytes' = bytes - b
          /\ lbytes' = [lbytes EXCEPT ![p] = bytes - b]
    /\ oldest' = [oldest EXCEPT ![p] = 0]
    /\ pc' = [pc EXCEPT ![p] = "bSize"]
    /\ UNCHANGED <<config, aside, items, queue, size, hits, misses, evictions, item, now,
                   args, elem, hit, res, ncalls>>

\* Line 187.
BudgetSize(p) ==
    /\ pc[p] = "bSize"
    /\ size' = size - 1
    /\ pc' = [pc EXCEPT ![p] = "bCount"]
    /\ UNCHANGED <<config, aside, items, queue, bytes, hits, misses, evictions, item, now,
                   args, locals, res, ncalls>>

\* Line 188.
BudgetCount(p) ==
    /\ pc[p] = "bCount"
    /\ evictions' = EvictionsAdd(evictions)
    /\ pc' = [pc EXCEPT ![p] = "budget"]
    /\ UNCHANGED <<config, aside, items, queue, bytes, size, hits, misses, item, now,
                   args, locals, res, ncalls>>

\* An increment that leaves the index where it was.
IndexAddNone(i) == i

\* atomic.AddUint64(index, +1)
IndexAdd(i) == i + 1

\* A Resolve that does not look at the error lookup returned.
ResolveFailedNever(err) == FALSE

\* Resolve, line 77: err != nil
ResolveFailed(err) == err # "nil"

\* Caller p has written to the list a Lookup returned to it.
Wrote(p) == Len(res[p].own) > 0 /\ res[p].own[1] = Scribble

\* Some caller has written to a list returned for item e.
WrittenFor(e) == \E q \in Callers : res[q].elem = e /\ Wrote(q)

\* Lines 192 and 76-88: lookup returns the item's fields; Resolve returns the
\* item's error, or increments the item's index and returns the address at
\* the index modulo the number of addresses.
ReturnResolve(p) ==
    /\ pc[p] = "ret"
    /\ op[p] = "Resolve"
    /\ LET e == elem[p]
           it == item[e]
           i == IndexAdd(it.index)
           n == Len(it.addrs)
       IN  IF ResolveFailed(it.err)
           THEN /\ res' = [res EXCEPT ![p] = [Served(p) EXCEPT !.kind = "error",
                                                           !.err = it.err, !.elem = e]]
                /\ UNCHANGED item
           ELSE IF n = 0
           THEN /\ res' = [res EXCEPT ![p] = [Served(p) EXCEPT !.kind = "error",
                                                           !.err = "cacheError", !.elem = e]]
                /\ item' = [item EXCEPT ![e].index = i]
           ELSE /\ res' = [res EXCEPT ![p] = [Served(p) EXCEPT !.kind = "ok",
                                                           !.addr = it.addrs[(i % n) + 1],
                                                           !.elem = e,
                                                           !.after = WrittenFor(e)]]
                /\ item' = [item EXCEPT ![e].index = i,
                                        ![e].served = Append(@, it.addrs[(i % n) + 1])]
    /\ pc' = [pc EXCEPT ![p] = "idle"]
    /\ elem' = [elem EXCEPT ![p] = 0]
    /\ hit' = [hit EXCEPT ![p] = FALSE]
    /\ UNCHANGED <<config, aside, items, queue, stats, now, args, lbytes, oldest, ncalls>>

\* A copy that hands back the array it was given.
copyBackingShared(b) == b

\* The array the result of copyStrings lives in, for an argument living in
\* array b: make allocates one (lines 294-295), and an empty list has none.
copyBacking(b) == 0

\* A remaining validity computed without looking at the clock first.
RemainingUnguarded(deadline) == deadline - now

\* Lines 97-103: the time left until the deadline, zero once the clock has
\* reached it.
Remaining(deadline) == IF ~After(deadline) THEN deadline - now ELSE 0

\* Lines 192 and 93-105: Lookup returns the item's error, or a copy of its
\* addresses with the time left until its expiry.
ReturnLookup(p) ==
    /\ pc[p] = "ret"
    /\ op[p] = "Lookup"
    /\ LET e == elem[p]
           it == item[e]
       IN  IF it.err # "nil"
           THEN res' = [res EXCEPT ![p] = [Served(p) EXCEPT !.kind = "error",
                                                        !.err = it.err, !.elem = e]]
           ELSE res' = [res EXCEPT ![p] = [Served(p) EXCEPT
                           !.kind = "ok",
                           !.addrs = copyStrings(it.addrs),
                           !.ttl = Remaining(it.ttl),
                           !.elem = e,
                           !.ref = copyBacking(e),
                           !.own = copyStrings(it.addrs),
                           !.after = WrittenFor(e)]]
    /\ pc' = [pc EXCEPT ![p] = "idle"]
    /\ elem' = [elem EXCEPT ![p] = 0]
    /\ hit' = [hit EXCEPT ![p] = FALSE]
    /\ UNCHANGED <<config, aside, items, queue, stats, item, now, args, lbytes, oldest, ncalls>>

\* The caller a Lookup returned a list to owns it and may write to it: it
\* overwrites the first address.  The write lands in the array the list lives
\* in, and shows in every list living in that array.
Mutate(p) ==
    /\ pc[p] = "idle"
    /\ res[p].kind = "ok" /\ op[p] = "Lookup"
    /\ Len(res[p].own) > 0 /\ ~Wrote(p)
    /\ res' = [q \in Callers |->
                 IF q = p \/ (res[p].ref # 0 /\ res[q].ref = res[p].ref)
                 THEN [res[q] EXCEPT !.own[1] = Scribble]
                 ELSE res[q]]
    /\ item' = IF res[p].ref # 0
               THEN [item EXCEPT ![res[p].ref].addrs[1] = Scribble]
               ELSE item
    /\ UNCHANGED <<config, aside, items, queue, stats, now, pc, args, locals, ncalls>>

\* ------------------------------------------------------- the specification

Next ==
    \/ \E p \in Callers : Begin(p)
    \/ \E p \in Callers : LockedLookup(p)
    \/ \E p \in Callers : WaitReady(p)
    \/ \E p \in Callers : WaitCanceled(p)
    \/ \E p \in Callers : ExpireLocked(p)
    \/ \E p \in Callers : ExpireSkip(p)
    \/ \E p \in Callers : ExpireBytes(p)
    \/ \E p \in Callers : ExpireSize(p)
    \/ \E p \in Callers : ExpireCount(p)
    \/ \E p \in Callers : HitCount(p)
    \/ \E p \in Callers : MissSize(p)
    \/ \E p \in Callers : MissCount(p)
    \/ \E p \in Callers : MissBytes(p)
    \/ \E p \in Callers : BudgetEvict(p)
    \/ \E p \in Callers : BudgetBytes(p)
    \/ \E p \in Callers : BudgetSize(p)
    \/ \E p \in Callers : BudgetCount(p)
    \/ \E p \in Callers : ReturnResolve(p)
    \/ \E p \in Callers : ReturnLookup(p)
    \/ \E p \in Callers : Mutate(p)
    \/ \E e \in DOMAIN item : Fetch(e)
    \/ Tick

Spec == Init /\ [][Next]_vars

\* ------------------------------------------------------ the Prefer registry

\* A tag no address carries.
TagZ == <<122>>

\* The lists of preferred tags a Prefer registry is built with.
PreferLists == UNION {[1..n -> {TagX, TagY, TagZ}] : n \in 0..MaxPreferred}

\* The tags a caller passes to its Lookup.
CallerTags == {<< >>, <<TagX>>, <<TagZ>>}

\* A loop that never returns from inside.
PreferStopsNever(addrs) == FALSE

\* prefer.Lookup, line 77: len(addrs) != 0
PreferStops(addrs) == Len(addrs) # 0

\* What ctx.Err() is when the base registry looks at the context: what it
\* was when prefer.Lookup looked last, or an error if the context became done
\* since.
CtxSeen(c) == IF c = "nil" THEN {"nil"} \cup CtxErrs ELSE {c}

\* Prefer(base, pref...).Lookup(ctx, name, tags...) is called.
PreferBegin ==
    /\ prefer.pc = "idle"
    /\ \E n \in Names, t \in CallerTags, pl \in PreferLists, c \in {"nil"} \cup CtxErrs :
          prefer' = [PreferIdle EXCEPT !.pc = "loop", !.name = n, !.tags = t,
                                       !.pref = pl, !.ctx = c]
    /\ UNCHANGED <<cache, dial, retry>>

\* Lines 68-79, one turn of the loop over the preferred tags: return the
\* context's error if it is done; otherwise call the base registry with the
\* caller's tags and this preferred tag, and return what it returned if it
\* returned addresses.
PreferTry ==
    /\ prefer.pc = "loop"
    /\ prefer.i <= Len(prefer.pref)
    /\ IF prefer.ctx # "nil"
       THEN prefer' = [prefer EXCEPT !.pc = "done", !.via = "ctx",
                                     !.res = [addrs |-> <<>>, ttl |-> 0, err |-> prefer.ctx]]
       ELSE \E c \in CtxSeen(prefer.ctx) :
               LET buf == Append(prefer.tags, prefer.pref[prefer.i])
                   got == BaseLookup(c, prefer.name, buf)
                   log == Append(prefer.calls, [tags |-> buf, got |-> got])
               IN  IF PreferStops(got.addrs)
                   THEN prefer' = [prefer EXCEPT !.pc = "done", !.via = "call", !.ctx = c,
                                                 !.calls = log, !.res = got]
                   ELSE prefer' = [prefer EXCEPT !.i = @ + 1, !.ctx = c, !.calls = log]
    /\ UNCHANGED <<cache, dial, retry>>

\* Line 81, after the loop: the base registry is called with the caller's
\* tags alone, and what it returns is returned.
PreferFallback ==
    /\ prefer.pc = "loop"
    /\ prefer.i > Len(prefer.pref)
    /\ \E c \in CtxSeen(prefer.ctx) :
          LET got == BaseLookup(c, prefer.name, prefer.tags)
          IN  prefer' = [prefer EXCEPT
                           !.pc = "done", !.via = "call", !.ctx = c,
                           !.calls = Append(@, [tags |-> prefer.tags, got |-> got]),
                           !.res = got]
    /\ UNCHANGED <<cache, dial, retry>>

\* The Prefer registry is exercised beside an idle cache with the default
\* configuration.
Standalone == MaxBytes = DefaultMaxBytes

InitPrefer == Init /\ Standalone

NextPrefer ==
    \/ PreferBegin
    \/ PreferTry
    \/ PreferFallback

SpecPrefer == InitPrefer /\ [][NextPrefer]_vars

\* -------------------------------------------------------------- the Dialer

\* The addresses dialed: a service name with a port, a service name without
\* one, and an IP address with a port.
Addresses == {"svc:80", "svc", "10.0.0.1:80"}

\* net.SplitHostPort: the host of the address; it fails on an address without
\* a port.
SplitFails(a) == a = "svc"

HostOf(a) == IF a = "svc:80" THEN "svc" ELSE IF a = "10.0.0.1:80" THEN "10.0.0.1" ELSE ""

\* net.ParseIP(host) != nil
IsIP(h) == h = "10.0.0.1"

\* nameOnly, lines 110-116.
nameOnly(a) == IF SplitFails(a) THEN a ELSE HostOf(a)

\* The errors a resolver or a dial can fail with: a context error, the
\* cache's error, the base registry's unreachable error, a DNS error, or an
\* error no classifier knows, bare or under one wrapper.
ErrValues ==
    {w \o <<l>> :
        w \in {<< >>, <<"wrappedError">>, <<"net.OpError">>},
        l \in {"context.Canceled", "context.DeadlineExceeded", "cacheError",
               "unreachable", DNSNoSuchHost, DNSCanceled, "invalid"}}

\* wrapError, lines 45-50 of error.go.
wrapError(err) == IF Len(err) = 0 THEN err ELSE <<"wrappedError">> \o err

\* A Dialer that goes on to dial after any resolution failure.
DialFallsBackAlways(err) == TRUE

\* Line 91: case isUnreachable(err)
DialFallsBack(err) == isUnreachable(err)

\* Dialer.DialContext(ctx, network, address) is called.
DialBegin ==
    /\ dial.pc = "idle"
    /\ \E a \in Addresses : dial' = [DialIdle EXCEPT !.pc = "resolve", !.address = a]
    /\ UNCHANGED <<cache, prefer, retry>>

\* Lines 78-94: an address that does not split into an IP address and a port
\* is resolved by name; the resolver's address replaces it, an unreachable
\* name leaves it as it is, any other error is returned.
DialResolve ==
    /\ dial.pc = "resolve"
    /\ IF SplitFails(dial.address) \/ ~IsIP(HostOf(dial.address))
       THEN \/ \E t \in {"h1:80", "h2:80"} :
                  dial' = [dial EXCEPT !.pc = "connect", !.asked = nameOnly(dial.address),
                                       !.rtarget = t, !.target = t]
            \/ \E e \in ErrValues :
                  IF DialFallsBack(e)
                  THEN dial' = [dial EXCEPT !.pc = "connect",
                                            !.asked = nameOnly(dial.address),
                                            !.rerr = e, !.target = dial.address]
                  ELSE dial' = [dial EXCEPT !.pc = "done",
                                            !.asked = nameOnly(dial.address),
                                            !.rerr = e, !.err = e]
       ELSE dial' = [dial EXCEPT !.pc = "connect", !.target = dial.address]
    /\ UNCHANGED <<cache, prefer, retry>>

\* Lines 96-107: the address is dialed with a net.Dialer, and the connection
\* is returned with the dial's error wrapped.
DialConnect ==
    /\ dial.pc = "connect"
    /\ \E e \in {<< >>} \cup ErrValues :
          dial' = [dial EXCEPT !.pc = "done", !.dialed = TRUE,
                               !.conn = (Len(e) = 0), !.err = wrapError(e)]
    /\ UNCHANGED <<cache, prefer, retry>>

InitDial == Init /\ Standalone

NextDial ==
    \/ DialBegin
    \/ DialResolve
    \/ DialConnect

SpecDial == InitDial /\ [][NextDial]_vars

\* ------------------------------------------------- the loop, without bounds
\*
\* The loop of Cache.lookup (lines 112-193) for one key, with no bound on the
\* number of calls.  What cannot grow is kept and the rest is left out: an
\* element is pending, fresh (ready, not past its expiry) or expired; the
\* clock is the step that takes a fresh element past its expiry; an element
\* the map and the callers have let go of is collected, as Go's collector
\* does; the counters, which decide nothing in the loop, are not kept; the
\* budget is the default one, which no entry of one key exceeds, so the
\* budget loop of lines 172-189 is never entered.

\* The elements the map or a caller still refers to.
Referenced(r) == {r.map} \cup {r.elem[c] : c \in Callers}

\* The state with every element nothing refers to collected.
Collect(r) ==
    [r EXCEPT !.ent = [e \in Slots |-> IF e \in Referenced(r) THEN r.ent[e] ELSE "free"]]

\* The element a new item is allocated in.
NewSlot(r) ==
    CHOOSE e \in Slots : r.ent[e] = "free" /\ \A f \in Slots : r.ent[f] = "free" => e <= f

\* A caller starts Resolve or Lookup of the key.
RBegin(c) ==
    /\ retry.pc[c] = "idle"
    /\ retry' = [retry EXCEPT !.pc[c] = "lookup", !.elem[c] = 0, !.hit[c] = FALSE]
    /\ UNCHANGED <<cache, prefer, dial>>

\* Lines 113-130: under the mutex the caller takes the element the map holds
\* as a hit, or inserts a new pending element, whose fetch is started.
RLocked(c) ==
    /\ retry.pc[c] = "lookup"
    /\ retry' =
          IF retry.map # 0
          THEN Collect([retry EXCEPT !.pc[c] = "wait", !.elem[c] = retry.map,
                                     !.hit[c] = TRUE])
          ELSE LET e == NewSlot(Collect([retry EXCEPT !.elem[c] = 0]))
               IN  Collect([retry EXCEPT !.pc[c] = "wait", !.elem[c] = e, !.hit[c] = FALSE,
                                         !.map = e, !.ent[e] = "pending"])
    /\ UNCHANGED <<cache, prefer, dial>>

\* cacheItem.lookup, lines 247-268: the call of the base registry returns and
\* the element's ready channel is closed.
RFetch(e) ==
    /\ retry.ent[e] = "pending"
    /\ retry' = [retry EXCEPT !.ent[e] = "fresh"]
    /\ UNCHANGED <<cache, prefer, dial>>

\* The clock passes the expiry of a ready element.
RExpire(e) ==
    /\ retry.ent[e] = "fresh"
    /\ retry' = [retry EXCEPT !.ent[e] = "expired"]
    /\ UNCHANGED <<cache, prefer, dial>>

\* Lines 132-138, the select's first case, and the comparison of the clock
\* with the element's expiry.
RWaitReady(c) ==
    /\ retry.pc[c] = "wait"
    /\ retry.ent[retry.elem[c]] \in {"fresh", "expired"}
    /\ retry' = [retry EXCEPT
                   !.pc[c] = IF retry.ent[retry.elem[c]] = "expired" THEN "expire" ELSE "ret"]
    /\ UNCHANGED <<cache, prefer, dial>>

\* Lines 134-135, the select's second case: the caller's context fires
\* while the call is at the select.
RWaitCanceled(c) ==
    /\ retry.pc[c] = "wait"
    /\ retry' = Collect([retry EXCEPT !.pc[c] = "idle", !.elem[c] = 0, !.hit[c] = FALSE])
    /\ UNCHANGED <<cache, prefer, dial>>

\* Lines 139-147: under the mutex the caller removes the expired element if
\* the map still holds this very element.
RExpireLocked(c) ==
    /\ retry.pc[c] = "expire"
    /\ retry' = IF retry.map = retry.elem[c]
                THEN [retry EXCEPT !.pc[c] = "evicted", !.map = 0]
                ELSE [retry EXCEPT !.pc[c] = "kept"]
    /\ UNCHANGED <<cache, prefer, dial>>

\* Lines 149-159: the eviction is counted, and a call that had hit the
\* element starts over: `continue`.  The variable hit keeps its value until
\* line 114 assigns it again; the element is not used again.
RExpireCount(c) ==
    /\ retry.pc[c] = "evicted"
    /\ retry' = IF Retry(retry.hit[c])
                THEN Collect([retry EXCEPT !.pc[c] = "lookup", !.elem[c] = 0])
                ELSE [retry EXCEPT !.pc[c] = "ret"]
    /\ UNCHANGED <<cache, prefer, dial>>

\* Line 149 with evict false.
RExpireSkip(c) ==
    /\ retry.pc[c] = "kept"
    /\ retry' = [retry EXCEPT !.pc[c] = "ret"]
    /\ UNCHANGED <<cache, prefer, dial>>

\* Lines 162-192: the statistics are updated and the call returns the
\* element's fields.
RReturn(c) ==
    /\ retry.pc[c] = "ret"
    /\ retry' = Collect([retry EXCEPT !.pc[c] = "idle", !.elem[c] = 0, !.hit[c] = FALSE])
    /\ UNCHANGED <<cache, prefer, dial>>

\* The steps of a call that need nothing but the processor and the mutex.
RStep(c) ==
    \/ RLocked(c)
    \/ RWaitReady(c)
    \/ RExpireLocked(c)
    \/ RExpireCount(c)
    \/ RExpireSkip(c)
    \/ RReturn(c)

InitRetry == Init /\ Standalone

NextRetry ==
    \/ \E c \in Callers : RBegin(c)
    \/ \E c \in Callers : RStep(c)
    \/ \E c \in Callers : RWaitCanceled(c)
    \/ \E e \in Slots : RFetch(e)
    \/ \E e \in Slots : RExpire(e)

\* The Go scheduler runs every runnable goroutine and the mutex is handed to
\* every goroutine that waits for it, so a call that can take a step takes
\* one; every call of the base registry returns.  Nothing makes a caller
\* start a call, a context fire or the clock pass an expiry.
FairRetry ==
    /\ \A c \in Callers : WF_vars(RStep(c))
    /\ \A e \in Slots : WF_vars(RFetch(e))

SpecRetry == InitRetry /\ [][NextRetry]_vars /\ FairRetry

\* ------------------------------------------------------ the TTL settings
\*
\* The cache under every pair of TTL settings, with the default budget and
\* one caller making its calls one after the other.  The steps are those of
\* Next that such a cache can take: with the default budget nothing is
\* evicted for space, and with one caller an expired element is still mapped
\* when its finder looks.

\* The values MinTTL and MaxTTL are given: unset or negative, below the TTL
\* the base registry reports, and above it.
TTLSettings == {0 - 1, 0, 1, 3}

TTLScenarios ==
    {[MinTTL |-> lo, MaxTTL |-> hi, MaxBytes |-> 0,
      callers |-> 1, calls |-> MaxCalls, requests |-> CoreRequests,
      horizon |-> MaxTime] : lo \in TTLSettings, hi \in TTLSettings}

InitTTL == InitOf(TTLScenarios)

NextTTL ==
    \/ Tick
    \/ \E p \in Callers : Begin(p)
    \/ \E p \in Callers : LockedLookup(p)
    \/ \E e \in DOMAIN item : Fetch(e)
    \/ \E p \in Callers : WaitReady(p)
    \/ \E p \in Callers : WaitCanceled(p)
    \/ \E p \in Callers : ExpireLocked(p)
    \/ \E p \in Callers : ExpireBytes(p)
    \/ \E p \in Callers : ExpireSize(p)
    \/ \E p \in Callers : ExpireCount(p)
    \/ \E p \in Callers : HitCount(p)
    \/ \E p \in Callers : MissSize(p)
    \/ \E p \in Callers : MissCount(p)
    \/ \E p \in Callers : MissBytes(p)
    \/ \E p \in Callers : BudgetEvict(p)
    \/ \E p \in Callers : ReturnResolve(p)
    \/ \E p \in Callers : ReturnLookup(p)
    \/ \E p \in Callers : Mutate(p)

SpecTTL == InitTTL /\ [][NextTTL]_vars

\* ------------------------------------------------------------- properties

Elems == 1..Len(item)

\* The items ever created for key k.
ItemsOf(k) == {e \in Elems : item[e].key = k}

InQueue(e) == \E i \in 1..Len(queue) : queue[i] = e

\* Caller p's last call has returned.
Done(p) == pc[p] = "idle" /\ res[p].kind # "none"

\* No Resolve or Lookup call is in progress.
Quiescent == \A p \in Callers : pc[p] = "idle"

IsPerm(s, t) ==
    /\ Len(s) = Len(t)
    /\ \E f \in Perms(Len(s)) : \A i \in 1..Len(s) : t[i] = s[f[i]]

\* Caller p's result is what Resolve or Lookup makes of ready item e.
ServedFrom(p, e) ==
    LET it == item[e]
    IN  /\ it.ready
        /\ IF it.err # "nil"
           THEN res[p].kind = "error" /\ res[p].err = it.err
           ELSE IF op[p] = "Lookup"
           THEN res[p].kind = "ok" /\ res[p].addrs = it.addrs
           ELSE IF Len(it.addrs) = 0
           THEN res[p].kind = "error" /\ res[p].err = "cacheError"
           ELSE res[p].kind = "ok" /\ res[p].addr \in Range(it.addrs)

\* C1: for a key none of whose entries was ever removed from the queue (the
\* budget holds the entry and it did not expire), there is one item, hence
\* one fetch and at most one call of the base registry, however many callers
\* looked the key up; and every caller of the key that returned without
\* being canceled was served from that item, after its one fetch ran.
C1_SingleFlight ==
    \A k \in {item[e].key : e \in Elems} :
        (\A e \in ItemsOf(k) : InQueue(e)) =>
            /\ Cardinality(ItemsOf(k)) = 1
            /\ \A p \in Callers :
                  (Done(p) /\ Key(p) = k /\ res[p].kind # "canceled") =>
                      /\ res[p].elem \in ItemsOf(k)
                      /\ ServedFrom(p, res[p].elem)

\* Two callers of the same key have both returned a result of the one item
\* that was ever created, one as the miss and one as a hit.
C1_Witness ==
    /\ Len(item) = 1 /\ item[1].ready /\ InQueue(1)
    /\ misses = 1 /\ hits = 1
    /\ \A p \in Callers : Done(p) /\ res[p].kind = "ok" /\ res[p].elem = 1

\* C2: whenever no call is in progress, evictions + size = misses.
C2_QuiescentBalance == Quiescent => evictions + size = misses

\* All calls have returned, one of them canceled, after a miss and an
\* eviction.
C2_Witness ==
    /\ Quiescent
    /\ misses > 0 /\ evictions > 0
    /\ \E p \in Callers : res[p].kind = "canceled"

\* C3, as claimed: in every reachable state evictions + size = misses.
C3_AtAllTimes == evictions + size = misses

\* A caller stands between its update of size and the update of misses or
\* evictions that goes with it (lines 166-167, 151-152, 187-188).
BetweenCounters(p) == pc[p] \in {"mMisses", "evCount", "bCount"}

\* C3, amended: evictions + size = misses in every state in which no caller
\* stands between its update of size and the matching update of misses or
\* evictions, calls in progress included.
C3_BalanceOutsideUpdates ==
    (\A p \in Callers : ~BetweenCounters(p)) => evictions + size = misses

\* A call is in progress, past a counted miss and a counted eviction.
C3_Witness ==
    /\ \E p \in Callers : pc[p] \in {"lookup", "wait", "expire", "mBytes", "budget", "ret"}
    /\ \A p \in Callers : ~BetweenCounters(p)
    /\ misses > 0 /\ evictions > 0

\* The addresses of list s are pairwise distinct.
Distinct(s) == \A i, j \in 1..Len(s) : s[i] = s[j] => i = j

\* C4: for an item holding k distinct addresses, any k consecutive Resolve
\* calls on it, in the order of their increments of its index, returned k
\* distinct addresses.
C4_RoundRobin ==
    \A e \in Elems :
        (item[e].ready /\ Distinct(item[e].addrs)) =>
            LET k == Len(item[e].addrs)
                served == item[e].served
            IN  \A i \in 1..Len(served) :
                   i + k - 1 <= Len(served) => Distinct(SubSeq(served, i, i + k - 1))

\* An item with two addresses has served two Resolve calls.
C4_Witness ==
    \E e \in Elems :
        /\ Len(item[e].addrs) = 2
        /\ Len(item[e].served) >= 2
        /\ item[e].served[1] # item[e].served[2]

\* C5: no fetch is aborted by a caller's cancellation (no item stores a
\* context error), and a caller whose context stayed live is not returned a
\* canceled error but the result of the item it waited on.
C5_CancelIsLocal ==
    /\ \A e \in Elems : item[e].ready => item[e].err \notin CtxErrs
    /\ \A p \in Callers :
          (Done(p) /\ ~ctx[p]) =>
              /\ res[p].kind # "canceled"
              /\ ServedFrom(p, res[p].elem)

\* One caller was canceled while the item was pending; another, with a live
\* context, got an address from the same item.
C5_Witness ==
    \E p, q \in Callers :
        /\ Done(p) /\ res[p].kind = "canceled" /\ res[p].pending
        /\ Done(q) /\ ~ctx[q] /\ res[q].kind = "ok"
        /\ res[q].elem = res[p].elem

\* C6, as claimed: a call whose context is canceled returns a canceled error.
C6_CanceledContextFails ==
    \A p \in Callers : (Done(p) /\ ctx[p]) => res[p].kind = "canceled"

\* The base registry fails for name n.
BaseFails(n) == BaseLookup("nil", n, <<>>).err # "nil"

\* C7: every Resolve of a name the base registry fails for, unless canceled,
\* returns the base registry's error.
C7_ErrorReturned ==
    \A p \in Callers :
        (Done(p) /\ op[p] = "Resolve" /\ BaseFails(name[p]) /\ res[p].kind # "canceled") =>
            /\ res[p].kind = "error"
            /\ res[p].err = BaseLookup("nil", name[p], <<>>).err

\* Two Resolve calls of an unknown name returned the error of the one stored
\* entry, one as the miss and one as a hit.
C7_Witness ==
    /\ misses = 1 /\ hits = 1
    /\ \A p \in Callers :
          /\ Done(p) /\ op[p] = "Resolve" /\ BaseFails(name[p])
          /\ res[p].kind = "error" /\ res[p].elem = 1

\* C8: an item's addresses are a permutation of the list the base registry
\* returned to its fetch, and every address a Resolve returned is one of the
\* addresses the base registry returned for the call's name to the fetch of
\* the item the call was served from.
C8_AddressFromBase ==
    /\ \A e \in Elems : item[e].ready => IsPerm(item[e].got.addrs, item[e].addrs)
    /\ \A p \in Callers :
          (Done(p) /\ op[p] = "Resolve" /\ res[p].kind = "ok") =>
              /\ item[res[p].elem].call.name = name[p]
              /\ res[p].addr \in Range(item[res[p].elem].got.addrs)

\* A Resolve returned an address of an entry fetched after an earlier entry
\* was evicted.
C8_Witness ==
    \E p \in Callers :
        /\ Done(p) /\ op[p] = "Resolve" /\ res[p].kind = "ok"
        /\ res[p].elem = 2
        /\ evictions > 0

\* C9, as claimed: the fetch of an item calls the base registry with the
\* name and the sorted tags of the item's key, and a Lookup returns the
\* addresses the base registry returns for the call's name and tags.
C9_ForwardsNameAndTags ==
    /\ \A e \in Elems :
          item[e].ready =>
              /\ item[e].call.name = item[e].key.name
              /\ StringsJoin(item[e].call.tags) = item[e].key.tags
    /\ \A p \in Callers :
          (Done(p) /\ op[p] = "Lookup" /\ res[p].kind = "ok") =>
              Range(res[p].addrs) = Range(BaseLookup("nil", name[p], tags[p]).addrs)

\* Caller p is in a call and past the locked map lookup of lines 113-125.
Holding(p) == pc[p] \notin {"idle", "lookup"}

\* C10: two calls with the same name whose tag lists are permutations of each
\* other have the same cache key, and while the elements they found are both
\* in the queue they are one element.
C10_TagOrderIrrelevant ==
    \A p, q \in Callers :
        (name[p] = name[q] /\ IsPerm(tags[p], tags[q])) =>
            /\ Key(p) = Key(q)
            /\ (Holding(p) /\ Holding(q) /\ InQueue(elem[p]) /\ InQueue(elem[q])) =>
                   elem[p] = elem[q]

\* A lookup with tags y, x hit the pending entry a lookup with tags x, y
\* created.
C10_Witness ==
    \E p, q \in Callers :
        /\ tags[p] = <<TagX, TagY>> /\ tags[q] = <<TagY, TagX>>
        /\ Holding(p) /\ Holding(q)
        /\ ~hit[p] /\ hit[q]
        /\ elem[p] = elem[q]
        /\ Len(item) = 1

\* C11: a call that created an item (a miss) holds a new, pending item; it
\* never starts over, and when it returns without being canceled it returns
\* what Resolve or Lookup makes of that very item, whose fetch has completed,
\* whether or not the item is past its expiry.  Only a call that hit an item
\* goes back to the locked lookup.
C11_MissUsesOwnFetch ==
    [][\A p \in Callers :
          /\ (pc[p] = "lookup" /\ pc'[p] = "wait" /\ ~hit'[p]) =>
                 /\ elem'[p] \notin Elems
                 /\ ~item'[elem'[p]].ready
          /\ (Holding(p) /\ pc'[p] = "lookup") => hit[p]
          /\ (Holding(p) /\ ~hit[p] /\ pc'[p] = "idle" /\ res'[p].kind # "canceled") =>
                 /\ res'[p].elem = elem[p]
                 /\ item[elem[p]].ready
                 /\ IF item[elem[p]].err # "nil"
                    THEN res'[p].kind = "error" /\ res'[p].err = item[elem[p]].err
                    ELSE IF op[p] = "Lookup"
                    THEN res'[p].kind = "ok" /\ res'[p].addrs = item[elem[p]].addrs
                    ELSE IF Len(item[elem[p]].addrs) = 0
                    THEN res'[p].kind = "error"
                    ELSE res'[p].kind = "ok" /\ res'[p].addr \in Range(item[elem[p]].addrs)
      ]_vars

\* The one call made so far created an item, found it past its expiry when
\* its fetch had completed, evicted it, and returned its address all the same.
C11_Witness ==
    /\ Quiescent
    /\ MaxTTL = 1 /\ MaxBytes = 0
    /\ Len(item) = 1 /\ ~InQueue(1) /\ After(item[1].ttl)
    /\ hits = 0 /\ misses = 1 /\ evictions = 1
    /\ \E p \in Callers : Done(p) /\ res[p].kind = "ok" /\ res[p].elem = 1

\* C12, as claimed: a call that hit a ready item and found it past its expiry
\* does not go on to return that item; it evicts the item and starts over,
\* whatever the other callers do.
C12_ExpiredHitRefreshes ==
    [][\A p \in Callers :
          (pc[p] = "expire" /\ hit[p] /\ pc'[p] # "expire") => pc'[p] = "evBytes"
      ]_vars

\* Some call has counted a miss.
AfterMiss == misses > 0

\* C13, as claimed: whenever no call is in progress after a miss, the byte
\* counter is at most the budget or the map is empty.
C13_BudgetOrEmpty ==
    (Quiescent /\ AfterMiss) => (bytes <= maxBytes \/ DOMAIN items = {})

\* C14: the queue holds the resident items from the most to the least
\* recently touched, an item a budget eviction has just removed was touched
\* before every item still in the queue, and that item is in the queue no
\* more.
C14_EvictsLeastRecent ==
    /\ \A i, j \in 1..Len(queue) :
          i < j => item[queue[i]].touch > item[queue[j]].touch
    /\ \A p \in Callers :
          pc[p] = "bBytes" =>
              /\ ~InQueue(oldest[p])
              /\ \A e \in Elems : InQueue(e) => item[e].touch > item[oldest[p]].touch

\* A budget eviction has removed the least recently touched of three items
\* and left the other two.
C14_Witness ==
    \E p \in Callers :
        /\ pc[p] = "bBytes"
        /\ Len(item) = 3 /\ Len(queue) = 2
        /\ evictions = 0

\* The elements the map holds.
Resident == {items[k] : k \in DOMAIN items}

\* The sum of the byte footprints of the items of set S; an item whose fetch
\* has not completed counts for nothing.
RECURSIVE SumBytes(_)
SumBytes(S) ==
    IF S = {} THEN 0
    ELSE LET e == CHOOSE x \in S : TRUE
         IN  item[e].bytes + SumBytes(S \ {e})

\* C15, as claimed: whenever no call is in progress, the footprints of the
\* items in the map add up to no more than the budget.
C15_ResidentWithinBudget == Quiescent => SumBytes(Resident) <= maxBytes

\* C16, as claimed: whenever no call is in progress, the size counter is the
\* number of entries of the map.
C16_SizeIsMapSize == Quiescent => size = Cardinality(DOMAIN items)

\* C17: a Resolve served from an item whose fetch got an empty list and no
\* error from the base registry returns the cache's own error, which the
\* classifier takes for unreachable; and no Resolve returns an empty address
\* without an error.
C17_EmptyListIsUnreachable ==
    \A p \in Callers :
        (Done(p) /\ op[p] = "Resolve") =>
            /\ (/\ res[p].kind # "canceled"
                /\ item[res[p].elem].got.err = "nil"
                /\ Len(item[res[p].elem].got.addrs) = 0) =>
                   /\ res[p].kind = "error"
                   /\ res[p].err = "cacheError"
                   /\ isUnreachable(Err(res[p].err))
            /\ res[p].kind = "ok" => res[p].addr # ""
            /\ res[p].kind = "error" => res[p].addr = "" /\ res[p].err # "nil"

\* A Resolve of the name the base registry knows with no address returned
\* the cache's error, once as the miss and once as a hit.
C17_Witness ==
    /\ Len(item) >= 1 /\ item[1].ready /\ item[1].key.name = "none"
    /\ item[1].got.err = "nil" /\ item[1].index = 2
    /\ \E p \in Callers :
          /\ Done(p) /\ op[p] = "Resolve" /\ res[p].elem = 1
          /\ res[p].kind = "error" /\ res[p].err = "cacheError"

\* C20, as claimed: the error a call returns because its context was done
\* while it waited for a pending item, its deadline having passed or not, is
\* one the classifier takes for canceled.
C20_DeadlineIsCanceled ==
    \A p \in Callers :
        (Done(p) /\ res[p].kind = "canceled" /\ res[p].pending) =>
            isCanceled(Err(res[p].err))

\* C18: the ttl a successful Lookup returns is the time left until the
\* item's expiry and zero once the expiry is reached: it is not negative, it
\* is zero exactly when the clock is at or past the expiry, and it is no more
\* than the base registry's TTL clamped between the floor and the ceiling.
C18_RemainingValidity ==
    [][\A p \in Callers :
          (pc[p] = "ret" /\ pc'[p] = "idle" /\ op[p] = "Lookup" /\ res'[p].kind = "ok") =>
              LET it == item[elem[p]]
                  t == res'[p].ttl
              IN  /\ t >= 0
                  /\ t = 0 <=> now >= it.ttl
                  /\ now < it.ttl => t = it.ttl - now
                  /\ t <= ClampTTL(it.got.ttl, minTTL, maxTTL)
      ]_vars

\* A Lookup created an entry, found it past its expiry, evicted it and
\* returned its addresses with a ttl of zero.
C18_Witness ==
    \E p \in Callers :
        /\ Done(p) /\ op[p] = "Lookup" /\ res[p].kind = "ok"
        /\ res[p].ttl = 0 /\ Len(res[p].addrs) = 2
        /\ After(item[res[p].elem].ttl)
        /\ evictions = 1 /\ hits = 0 /\ Len(item) = 1

\* C19: whatever the callers wrote to the lists they were returned, every
\* item still holds the addresses its fetch stored, no Lookup or Resolve
\* returned an address a caller wrote, and the list of a caller that wrote
\* nothing is as it was returned.
C19_ResultIsOwnedCopy ==
    /\ \A e \in Elems :
          item[e].ready =>
              /\ Scribble \notin Range(item[e].addrs)
              /\ IsPerm(item[e].got.addrs, item[e].addrs)
    /\ \A p \in Callers :
          /\ Scribble \notin Range(res[p].addrs)
          /\ res[p].addr # Scribble
          /\ \A q \in Callers \ {p} :
                (Wrote(p) /\ res[q].kind = "ok" /\ op[q] = "Lookup") =>
                    (Wrote(q) \/ res[q].own = res[q].addrs)

\* A caller wrote to the list a Lookup returned to it, and after that a
\* Lookup of the same key returned the entry's addresses to another caller.
C19_Witness ==
    \E p, q \in Callers :
        /\ p # q
        /\ Wrote(p)
        /\ Done(q) /\ op[q] = "Lookup" /\ res[q].kind = "ok"
        /\ res[q].elem = res[p].elem /\ res[q].after
        /\ Len(res[q].addrs) = 2

\* C21: the base registry was called at most once per preferred tag and once
\* more; the j-th call carried the caller's tags followed by the j-th
\* preferred tag alone, the call after the last preferred tag the caller's
\* tags alone; every call but the last returned no address; and a Lookup that
\* returned after calling the base registry returned what the last call
\* returned, which holds addresses unless it is the call without preferred
\* tag.
C21_PreferOrder ==
    LET n == Len(prefer.pref)
        c == prefer.calls
    IN  /\ Len(c) <= n + 1
        /\ \A j \in 1..Len(c) :
              /\ c[j].tags = IF j <= n THEN prefer.tags \o <<prefer.pref[j]>>
                                       ELSE prefer.tags
              /\ j < Len(c) => Len(c[j].got.addrs) = 0
        /\ (prefer.pc = "loop" /\ Len(c) > 0) => Len(c[Len(c)].got.addrs) = 0
        /\ (prefer.pc = "done" /\ prefer.via = "call") =>
              /\ Len(c) > 0
              /\ prefer.res = c[Len(c)].got
              /\ Len(c) <= n => Len(prefer.res.addrs) > 0
        /\ (prefer.pc = "done" /\ prefer.via = "ctx") =>
              /\ prefer.res.err \in CtxErrs
              /\ Len(c) <= n

\* With preferred tags z and y, the call with z returned nothing and the call
\* with y returned an address, which the Lookup returned without a third call.
C21_Witness ==
    /\ prefer.pc = "done" /\ prefer.via = "call"
    /\ prefer.pref = <<TagZ, TagY>> /\ prefer.tags = <<TagX>>
    /\ Len(prefer.calls) = 2
    /\ prefer.res.addrs = <<"h2:80">>

\* C22: a DialContext past its resolution step asked the resolver exactly
\* when the address is not an IP address with a port.  If the resolver
\* returned an address, that address is the one dialed; if it failed with an
\* error the classifier takes for unreachable, the original address is the
\* one dialed; if it failed with any other error, nothing was dialed and that
\* error is what DialContext returned.
C22_DialFallback ==
    dial.pc \in {"connect", "done"} =>
        LET isName == SplitFails(dial.address) \/ ~IsIP(HostOf(dial.address))
            failed == Len(dial.rerr) > 0
        IN  /\ (dial.asked # "") <=> isName
            /\ ~isName => dial.target = dial.address
            /\ (isName /\ ~failed) =>
                   /\ dial.target = dial.rtarget /\ dial.target # dial.address
                   /\ dial.pc = "done" => dial.dialed
            /\ (isName /\ failed /\ isUnreachable(dial.rerr)) =>
                   /\ dial.target = dial.address
                   /\ dial.pc = "done" => dial.dialed
            /\ (isName /\ failed /\ ~isUnreachable(dial.rerr)) =>
                   /\ dial.pc = "done" /\ ~dial.dialed /\ ~dial.conn
                   /\ dial.err = dial.rerr

\* The resolver failed with a wrapped unreachable error, and the original
\* address was dialed and connected.
C22_Witness ==
    /\ dial.pc = "done" /\ dial.address = "svc:80" /\ dial.asked = "svc"
    /\ dial.rerr = <<"wrappedError", "unreachable">>
    /\ dial.dialed /\ dial.conn /\ dial.target = "svc:80"

\* The items of key k whose fetch has started and has not completed.
InFlight(k) == {e \in ItemsOf(k) : ~item[e].ready}

\* C23, as claimed: at any time at most one fetch is in flight for a key.
C23_OneFetchPerKey ==
    \A k \in {item[e].key : e \in Elems} : Cardinality(InFlight(k)) <= 1

\* C24, as claimed: a budget eviction reads the byte footprint of the item it
\* removed only when that item's ready channel is closed.
C24_NoReadBeforeReady ==
    \A p \in Callers : pc[p] = "bBytes" => item[oldest[p]].ready

\* Item e is ready and the clock has not passed its expiry.
Valid(e) == item[e].ready /\ now <= item[e].ttl

\* Caller p, at the locked lookup, finds its key mapped to a valid item: it
\* takes that item as a hit and creates no item, so starts no fetch.
HitsValid(p) ==
    (/\ pc[p] = "lookup" /\ pc'[p] = "wait"
     /\ MapHas(items, Key(p)) /\ Valid(items[Key(p)])) =>
        /\ hit'[p] /\ elem'[p] = items[Key(p)]
        /\ Len(item') = Len(item)

\* Caller p, having counted a hit on item e, returns what Resolve or Lookup
\* makes of e.
ReturnsStored(p) ==
    /\ (pc[p] = "stats" /\ hit[p] /\ pc'[p] # "stats") =>
           pc'[p] = "ret" /\ elem'[p] = elem[p]
    /\ (pc[p] = "ret" /\ hit[p] /\ pc'[p] = "idle") =>
           /\ res'[p].elem = elem[p]
           /\ IF item[elem[p]].err # "nil"
              THEN res'[p].kind = "error" /\ res'[p].err = item[elem[p]].err
              ELSE IF op[p] = "Lookup"
              THEN res'[p].kind = "ok" /\ res'[p].addrs = item[elem[p]].addrs
              ELSE IF Len(item[elem[p]].addrs) = 0
              THEN res'[p].kind = "error"
              ELSE res'[p].kind = "ok" /\ res'[p].addr \in Range(item[elem[p]].addrs)

\* C25, as claimed: every lookup that finds its key mapped to a valid item
\* is a hit that starts no fetch, and every caller that waits on a valid item
\* it hit goes on to count the hit and returns the stored result.
C25_EveryHitServed ==
    [][\A p \in Callers :
          /\ HitsValid(p)
          /\ (pc[p] = "wait" /\ hit[p] /\ Valid(elem[p]) /\ pc'[p] # "wait") =>
                 pc'[p] = "stats"
          /\ ReturnsStored(p)
      ]_vars

\* C25, amended: the same for every caller whose context is not done; a
\* caller whose context is done may return the context's error instead.
C25_LiveHitServed ==
    [][\A p \in Callers :
          /\ HitsValid(p)
          /\ (pc[p] = "wait" /\ hit[p] /\ Valid(elem[p]) /\ pc'[p] # "wait") =>
                 \/ pc'[p] = "stats"
                 \/ ctx[p] /\ pc'[p] = "idle" /\ res'[p].kind = "canceled"
          /\ ReturnsStored(p)
      ]_vars

\* A Resolve hit the resident entry holding the base registry's error before
\* its expiry and returned that error; the base registry was called once.
C25_Witness ==
    /\ Len(item) = 1 /\ InQueue(1) /\ Valid(1)
    /\ item[1].err = "unreachable"
    /\ hits = 1 /\ misses = 1
    /\ \A p \in Callers :
          Done(p) /\ ~ctx[p] /\ res[p].kind = "error" /\ res[p].err = "unreachable"

\* C26: in every state (the mutex is free between any two steps) the queue
\* holds each of its elements once, the elements of the queue are those of
\* the map, the map holds each element under one key only, and that key is
\* the key of the element's item.
C26_QueueIsMap ==
    /\ \A i, j \in 1..Len(queue) : queue[i] = queue[j] => i = j
    /\ Range(queue) = Resident
    /\ \A k \in DOMAIN items : item[items[k]].key = k

\* An entry was evicted on expiry, a new entry was inserted under its key and
\* then hit: the queue and the map hold the new entry and not the old one.
C26_Witness ==
    \E e1, e2 \in Elems :
        /\ e1 # e2 /\ item[e1].key = item[e2].key
        /\ ~InQueue(e1) /\ InQueue(e2) /\ items[item[e2].key] = e2
        /\ After(item[e1].ttl)
        /\ hits > 0 /\ evictions > 0
\* The callers that have removed an element and not yet counted the eviction.
Evicting == {p \in Callers : pc[p] \in {"evBytes", "evSize", "evCount",
                                          "bBytes", "bSize", "bCount"}}

\* The elements that were inserted and are no longer in the queue.
Removed == {e \in Elems : ~InQueue(e)}

\* C27: the expiry step removes an element only when the map still maps the
\* key to that very element, and then removes that element and its key; when
\* the key is unmapped or mapped to a newer element the step leaves the map
\* and the queue as they are and the call counts no eviction.  Every removed
\* element is counted once: the evictions counted and the removals still to
\* be counted add up to the number of removed elements, and no two callers
\* are counting the removal of one element.
C27_ExpiryGuard ==
    /\ [](/\ evictions + Cardinality(Evicting) = Cardinality(Removed)
          /\ \A p, q \in Callers :
                (pc[p] \in {"evBytes", "evSize", "evCount"} /\
                 pc[q] \in {"evBytes", "evSize", "evCount"} /\ elem[p] = elem[q]) => p = q)
    /\ [][\A p \in Callers :
            /\ (pc[p] = "expire" /\ pc'[p] # "expire") =>
                   IF Key(p) \in DOMAIN items /\ items[Key(p)] = elem[p]
                   THEN /\ pc'[p] = "evBytes"
                        /\ ~InQueue(elem[p])' /\ Key(p) \notin DOMAIN items'
                        /\ Range(queue') = Range(queue) \ {elem[p]}
                   ELSE /\ pc'[p] = "kept"
                        /\ items' = items /\ queue' = queue
            /\ (pc[p] = "kept" /\ pc'[p] # "kept") => pc'[p] = "stats" /\ stats' = stats
        ]_vars

\* Two callers found the same item past its expiry; one removed it, counted
\* the eviction and inserted a newer item under the key; the other then found
\* the key mapped to the newer item and removed nothing.
C27_Witness ==
    \E p \in Callers :
        /\ pc[p] = "kept"
        /\ ~InQueue(elem[p])
        /\ Key(p) \in DOMAIN items /\ items[Key(p)] # elem[p] /\ InQueue(items[Key(p)])
        /\ evictions = 1 /\ Cardinality(Removed) = 1

\* C28: the ready channel of an item is closed by the step in which the
\* item's one call of the base registry returns, with addresses or with an
\* error, and in no other step; once closed it stays closed, and from then
\* on the item's addresses, error, expiry, footprint, key and the result it
\* fetched stay as they are.  A step that changes a ready item changes its
\* round-robin index (and the record of what was served and touched).
C28_ReadyOnceThenFrozen ==
    [][\A e \in Elems :
          /\ (~item[e].ready /\ item'[e].ready) =>
                 /\ item'[e].got = BaseLookup("nil", item[e].key.name, item[e].tags)
                 /\ item'[e].err = item'[e].got.err
                 /\ IsPerm(item'[e].addrs, item'[e].got.addrs)
                 /\ item'[e].index = item[e].index
          /\ item[e].ready =>
                 /\ item'[e].ready
                 /\ item'[e].addrs = item[e].addrs
                 /\ item'[e].err = item[e].err
                 /\ item'[e].ttl = item[e].ttl
                 /\ item'[e].bytes = item[e].bytes
                 /\ item'[e].key = item[e].key
                 /\ item'[e].got = item[e].got
                 /\ item'[e].call = item[e].call
      ]_vars

\* An item became ready, the clock moved on, and two Resolve calls were
\* served from it: its index has advanced and its addresses are the fetched
\* ones.
C28_Witness ==
    \E e \in Elems :
        /\ item[e].ready /\ item[e].index = 2 /\ Len(item[e].served) = 2
        /\ IsPerm(item[e].addrs, item[e].got.addrs) /\ Len(item[e].addrs) = 2
        /\ now > 0

\* Caller p's call has returned the error of its context.
Canceled(p) == Done(p) /\ res[p].kind = "canceled"

\* C30, as claimed: a call that returned because its context was done has
\* removed no entry from the map or the queue (and so has changed no
\* counter) in the course of the call.
C30_CanceledCallRemovesNothing ==
    \A p \in Callers : Canceled(p) => ~res[p].evicted

\* C30, amended: the step in which a call returns the error of its context
\* is taken at the select and leaves the map, the queue, the five counters
\* and every item as they are, so the item waited on stays where it was,
\* pending or ready.  An item a canceled call waited on is, once ready,
\* filled with what the base registry returns under a live context, and
\* every other call that returns with that item without being canceled is
\* served from it.  Before the select at which it returns, the call may have
\* evicted an expired item it had hit, and counted that eviction.
C30_CancelStepChangesNothing ==
    /\ [](\A p \in Callers :
             Canceled(p) =>
                LET e == res[p].elem
                IN  /\ e \in Elems
                    /\ ~item[e].ready => FetchPending(e)
                    /\ item[e].ready =>
                           item[e].got = BaseLookup("nil", item[e].key.name, item[e].tags)
                    /\ \A q \in Callers :
                           (Done(q) /\ res[q].kind # "canceled" /\ res[q].elem = e) =>
                               ServedFrom(q, e))
    /\ [][\A p \in Callers :
            (pc[p] # "idle" /\ pc'[p] = "idle" /\ res'[p].kind = "canceled") =>
                /\ pc[p] = "wait" /\ res'[p].elem = elem[p]
                /\ items' = items /\ queue' = queue /\ stats' = stats /\ item' = item
                /\ res'[p].evicted =>
                       /\ evictions > 0
                       /\ \E e \in Removed : item[e].key = Key(p) /\ After(item[e].ttl)
        ]_vars

\* A call created an item and returned canceled while the item was pending;
\* the item stayed in the map and the queue, became ready, and another call
\* with a live context hit it and was returned an address from it.  No
\* counter other than the hit counter has moved.
C30_Witness ==
    \E p, q \in Callers :
        /\ Canceled(p) /\ res[p].pending /\ ~res[p].evicted
        /\ Len(item) = 1 /\ res[p].elem = 1 /\ InQueue(1) /\ item[1].ready
        /\ Done(q) /\ ~ctx[q] /\ res[q].kind = "ok" /\ res[q].elem = 1
        /\ hits = 1 /\ misses = 0 /\ size = 0 /\ bytes = 0 /\ evictions = 0

\* Caller c is in a call of the loop.
InCall(c) == retry.pc[c] # "idle"

Validity(e) == item[e].ttl - item[e].at

\* C31, as claimed: whatever MinTTL and MaxTTL are, the validity of every
\* fetched item, holding addresses or an error, is at least the floor and at
\* most the ceiling.
C31_ValidityWithinSettings ==
    \A e \in Elems :
        item[e].ready => minTTL <= Validity(e) /\ Validity(e) <= maxTTL

\* C31, amended: the validity never exceeds the ceiling; it is at least the
\* floor when the floor is not above the ceiling, and it is the ceiling when
\* the floor is above it.  It is the reported TTL when that lies between
\* the two.
C31_ValidityClamped ==
    \A e \in Elems :
        item[e].ready =>
            /\ Validity(e) <= maxTTL
            /\ minTTL <= maxTTL => minTTL <= Validity(e)
            /\ minTTL > maxTTL => Validity(e) = maxTTL
            /\ (minTTL <= item[e].got.ttl /\ item[e].got.ttl <= maxTTL) =>
                   Validity(e) = item[e].got.ttl

\* With a floor above the reported TTL and no ceiling, an item holding the
\* base registry's error was fetched after the clock had moved and was given
\* the floor as its validity.
C31_Witness ==
    \E e \in Elems :
        /\ MinTTL = 3 /\ MaxTTL <= 0
        /\ item[e].ready /\ item[e].err = "unreachable" /\ item[e].at > 0
        /\ item[e].got.ttl < minTTL /\ Validity(e) = minTTL

\* The callers whose call has counted its hit or its miss and has not yet
\* returned.
Counted == {p \in Callers : pc[p] \in {"ret", "mBytes", "budget", "bBytes", "bSize", "bCount"}}

\* The calls that have returned without being canceled.
RECURSIVE SumReturned(_)
SumReturned(S) ==
    IF S = {} THEN 0
    ELSE LET p == CHOOSE q \in S : TRUE
         IN  res[p].returned + SumReturned(S \ {p})

\* C32: the hits and the misses counted add up to the calls that have
\* returned without being canceled and the calls that have counted and are
\* about to return; so when no call is in progress Hits + Misses is the
\* number of calls that returned without being canceled.  A call that starts
\* over and a call that returns canceled have counted neither.
C32_HitsPlusMisses ==
    /\ hits + misses = SumReturned(Callers) + Cardinality(Counted)
    /\ Quiescent => hits + misses = SumReturned(Callers)
    /\ \A p \in Callers : pc[p] \in {"lookup", "wait"} => p \notin Counted

\* Three calls were made one after the other: the first missed, the second
\* hit the expired entry, evicted it, started over and missed, the third was
\* canceled.  Two misses and no hit were counted.
C32_Witness ==
    /\ Quiescent /\ ncalls = 3
    /\ Canceled(1) /\ res[1].returned = 2
    /\ Len(item) = 2 /\ item[1].key = item[2].key
    /\ evictions = 1 /\ misses = 2 /\ hits = 0

\* C33, as claimed: the size and bytes counters, which Stats reports as they
\* are, are never negative.
C33_SizeAndBytesNonNegative == size >= 0 /\ bytes >= 0

====
